---- MODULE Spec2Model ----
(***************************************************************************)
(* frida-tools compiler front end (frida_tools/compiler.py).               *)
(*                                                                         *)
(* Two threads of control are modelled:                                    *)
(*   - the reactor thread, which runs _start and then the scheduled tasks  *)
(*     one at a time in FIFO order;                                        *)
(*   - the engine's delivering thread, which emits the four events         *)
(*     "starting", "diagnostics", "output", "finished" and runs whatever   *)
(*     callback compiler.on(...) registered for them.                      *)
(* The Reactor and ConsoleApplication._exit/_print live outside            *)
(* compiler.py; they are modelled from sections 4.1 and 7 of the           *)
(* specification.                                                          *)
(***************************************************************************)
EXTENDS Integers, Sequences, FiniteSets

\* ---------------------------------------------------------------- bounds
\* number of events the engine emits in one run, over all passes
MaxEvents == 4
\* number of records in one diagnostics batch
MaxDiagLen == 2
\* number of operations (prints, writes) that raise in one run
MaxFaults == 1

\* The diagnostic records of a batch of n records: the handler treats all
\* categories alike, so a batch is told from another by its length, and its
\* records from one another by their category and position.
Category(i) == IF i % 2 = 1 THEN "error" ELSE "warning"

Batch(n) == [i \in 1..n |-> Category(i)]

\* The bundle texts the engine emits, as sequences of characters. No handler
\* inspects the text, and a text stream treats every character but the line
\* feed alike: a text with ordinary characters and a line feed stands for all.
Bundles == {<<"a", "LF", "b">>}

\* The platforms the process runs on, and os.linesep of each.
Platforms == {"posix", "windows"}

LineSep(p) == IF p = "windows" THEN <<"CR", "LF">> ELSE <<"LF">>

\* open(self._output, "w", encoding="utf-8", newline="\n"): what a line feed
\* is written as.
FileNewline == <<"LF">>

\* The write of a text stream: every line feed of the text is replaced by the
\* stream's newline, every other character is written as it is.
RECURSIVE TextWrite(_, _)
TextWrite(text, newline) ==
    IF text = <<>> THEN <<>>
    ELSE (IF Head(text) = "LF" THEN newline ELSE <<Head(text)>>)
             \o TextWrite(Tail(text), newline)

Modes == {"build", "watch"}

VARIABLES
    mode,          \* self._mode
    optVerbose,    \* options.verbose
    output,        \* self._output: "none" (standard output) or "file"
    platform,      \* the platform of the process: decides sys.stdout's newline
    pc,            \* position of the reactor thread
    queue,         \* the reactor's pending tasks, oldest first
    exitRequests,  \* the codes passed to self._exit, in call order
    started,       \* self._compilation_started (t = 0 is None)
    clock,         \* the value the next timer() call returns
    cur,           \* the task in progress (finished, with its time_finished; output)
    handle,        \* the file object f of _on_compiler_output: "closed" or "open"
    effects,       \* everything printed or delivered, in order
    eng,           \* the engine: current pass and position in its event stream
    emitted,       \* the events the engine has emitted, in order
    spanAccess,    \* accesses to _compilation_started: thread, operation, the
                   \* reactor thread's position and the pass it was reporting
    hist           \* what has happened so far (interrupt, failures, faults)

vars == <<mode, optVerbose, output, platform, pc, queue, exitRequests, started,
          clock, cur, handle, effects, eng, emitted, spanAccess, hist>>

\* ------------------------------------------------------------- helpers
Range(s) == {s[i] : i \in 1..Len(s)}

Last(s) == s[Len(s)]

NoTask == [kind |-> "none", pass |-> 0, ev |-> 0, payload |-> <<>>]

Task(kind, pass, ev, payload) ==
    [kind |-> kind, pass |-> pass, ev |-> ev, payload |-> payload]

StopTask == Task("stop", 0, 0, <<>>)

\* One visible effect. kind: "clear", "compiling", "diag", "bundle",
\* "compiled" or "error"; pass and ev name the pass and the emitted event the
\* effect belongs to; rec is the position of a record in its batch; val is the
\* text (category, bundle or error); dest is "console", "stdout" or "file";
\* t0, t1 are the timestamps of a "compiled" report and t0pass the pass whose
\* "starting" recorded t0; arg is the text handed to the write of a bundle.
Eff(kind, task, val, dest) ==
    [kind |-> kind, pass |-> task.pass, ev |-> task.ev, rec |-> 0, val |-> val,
     dest |-> dest, t0 |-> 0, t1 |-> 0, t0pass |-> 0, arg |-> <<>>]

\* stream.write(bundle) on a text stream with the given newline.
Written(task, newline, dest) ==
    [Eff("bundle", task, TextWrite(task.payload[1], newline), dest)
        EXCEPT !.arg = task.payload[1]]

\* Variant of self._verbose that honours the flag alone.
VerboseFlagOnly == optVerbose

\* self._verbose = self._mode == "watch" or options.verbose
Verbose == mode = "watch" \/ optVerbose

\* The part of the state the handlers write: exit requests, queue, effects.
St == [reqs |-> exitRequests, queue |-> queue, effects |-> effects]

\* Reactor.schedule: thread-safe FIFO enqueue.
Schedule(st, task) == [st EXCEPT !.queue = Append(@, task)]

\* ConsoleApplication._exit / Reactor.stop: record the exit code and request
\* termination of the run loop; tasks enqueued earlier are not dropped.
Exit(st, code) ==
    [st EXCEPT !.reqs = Append(@, code), !.queue = Append(@, StopTask)]

\* ConsoleApplication._print, sys.stdout.write and the write to the file
Deliver(st, e) == [st EXCEPT !.effects = Append(@, e)]

\* The exit code the process terminates with: the last code requested, or 0
\* when the run loop was stopped without any request (interrupt).
ExitCode == IF exitRequests = <<>> THEN 0 ELSE Last(exitRequests)

\* ----------------------------------------------------- handlers (compiler.py)
\* Variant of _on_fatal_error that prints and forgets to exit.
_on_fatal_error_no_exit(st, err) == Deliver(st, Eff("error", NoTask, err, "console"))

\* _on_fatal_error: print the formatted error, then self._exit(1)
_on_fatal_error(st, err) == Exit(Deliver(st, Eff("error", NoTask, err, "console")), 1)

\* Reactor run loop, failure semantics: an uncaught fault inside a task
\* reaches the top-level fatal-error path.
TaskFault(st) == _on_fatal_error(st, "fault")

\* on_compiler_finished, on_compiler_output, on_compiler_diagnostics: the
\* closures registered with compiler.on; each only schedules its task.
\* Variant of on_compiler_finished that runs ahead of the pending tasks.
on_compiler_finished_ahead(st, task) == [st EXCEPT !.queue = <<task>> \o @]

on_compiler_finished(st, task) == Schedule(st, task)

\* Variant of on_compiler_output that never schedules the delivery.
on_compiler_output_dropped(st, task) == st

on_compiler_output(st, task) == Schedule(st, task)

on_compiler_diagnostics(st, task) == Schedule(st, task)

\* _on_compiler_starting, second statement: schedule the print when verbose.
\* (Its first statement, the write of _compilation_started, is in EmitStarting.)
_on_compiler_starting(st, task) == IF Verbose THEN Schedule(st, task) ELSE st

\* _print_compiler_starting
_print_compiler_starting(st, task) ==
    LET s1 == IF mode = "watch" THEN Deliver(st, Eff("clear", task, "", "stdout"))
                                ELSE st
    IN  Deliver(s1, Eff("compiling", task, "", "console"))

\* Variant of _on_compiler_diagnostics that treats an "error" record as fatal.
_on_compiler_diagnostics_errors_fatal(st, task, k) ==
    LET printed == [st EXCEPT !.effects = @ \o
            [i \in 1..k |-> [Eff("diag", task, task.payload[i], "console") EXCEPT !.rec = i]]]
    IN  IF \E i \in 1..k : task.payload[i] = "error"
        THEN _on_fatal_error(printed, "diag")
        ELSE printed

\* _on_compiler_diagnostics: print the records in input order; k is the number
\* of records printed (all of them unless a print faults).
_on_compiler_diagnostics(st, task, k) ==
    [st EXCEPT !.effects = @ \o
        [i \in 1..k |-> [Eff("diag", task, task.payload[i], "console") EXCEPT !.rec = i]]]

\* Variant of the with statement's exit that closes only after a good write.
WithExitOnSuccess(h, res) == IF res = "ok" THEN "closed" ELSE h

\* with open(...) as f: leaving the block closes f however the block ended.
WithExit(h, res) == "closed"

\* Variant of _on_compiler_output whose except branch swallows the error.
_on_compiler_output_swallow(st, task, res) ==
    IF res = "ok"
    THEN Deliver(st, Written(task, FileNewline,
                             IF output = "file" THEN "file" ELSE "stdout"))
    ELSE st

\* _on_compiler_output: res is the outcome of the delivery.
_on_compiler_output(st, task, res) ==
    IF output = "file"
    THEN IF res = "ok"
         THEN Deliver(st, Written(task, FileNewline, "file"))
         ELSE _on_fatal_error(st, "write")
    ELSE Deliver(st, Written(task, LineSep(platform), "stdout"))

\* _on_compiler_finished, the report: format_compiled(module, cwd,
\* self._compilation_started, time_finished)
_on_compiler_finished(st, task, tf) ==
    Deliver(st, [Eff("compiled", task, "", "console")
                   EXCEPT !.t0 = started.t, !.t1 = tf, !.t0pass = started.pass])

\* Variant of _start that never requests the exit.
_start_returned_no_exit(st) == st

\* Variant of _start that requests exit 0 in both modes.
_start_returned_always_exits(st) == Exit(st, 0)

\* _start, after the engine call returned: build mode requests exit 0.
_start_returned(st) == IF mode = "build" THEN Exit(st, 0) ELSE st

\* Variant of _start whose exit 0 sits after the try statement.
_start_raised_then_exit(st) == Exit(Schedule(st, Task("fatal", 0, 0, <<"startup">>)), 0)

\* _start, except branch: schedule the fatal-error task.
_start_raised(st) == Schedule(st, Task("fatal", 0, 0, <<"startup">>))

\* ------------------------------------------------------------------- state
Commit(st) ==
    /\ exitRequests' = st.reqs
    /\ queue' = st.queue
    /\ effects' = st.effects

NoHist == [interrupted |-> FALSE, startupFailed |-> FALSE, returned |-> FALSE,
           writeFailed |-> FALSE, faulted |-> FALSE, raised |-> 0]

\* _initialize: the configuration is any of the command lines' outcomes, on
\* one of the given platforms; the queue is empty and _compilation_started is
\* None.
InitOn(platforms) ==
    /\ mode \in Modes
    /\ optVerbose \in BOOLEAN
    /\ output \in {"none", "file"}
    /\ platform \in platforms
    /\ pc = "idle"
    /\ queue = <<>>
    /\ exitRequests = <<>>
    /\ started = [t |-> 0, pass |-> 0]
    /\ clock = 1
    /\ cur = [task |-> NoTask, tf |-> 0]
    /\ handle = "closed"
    /\ effects = <<>>
    /\ eng = [pass |-> 0, phase |-> "off", out |-> FALSE]
    /\ emitted = <<>>
    /\ spanAccess = {}
    /\ hist = NoHist

\* The platform decides nothing but the text sys.stdout writes for a line
\* feed: Init is the start on a platform whose line separator is the line
\* feed, InitAnyPlatform the start on any platform.
Init == InitOn({"posix"})

InitAnyPlatform == InitOn(Platforms)

\* ------------------------------------------------- _start (reactor thread)
\* _start enters compiler.build or compiler.watch.
Start ==
    /\ pc = "idle"
    /\ pc' = "in_call"
    /\ eng' = [pass |-> 1, phase |-> "before", out |-> FALSE]
    /\ UNCHANGED <<mode, optVerbose, output, platform, handle, queue,
                   exitRequests, started, clock, cur, effects, emitted,
                   spanAccess, hist>>

\* compiler.build returned (after the pass's "finished"): self._exit(0).
BuildReturn ==
    /\ pc = "in_call" /\ mode = "build" /\ eng.phase = "done"
    /\ Commit(_start_returned(St))
    /\ pc' = "loop"
    /\ hist' = [hist EXCEPT !.returned = TRUE]
    /\ UNCHANGED <<mode, optVerbose, output, platform, handle, started, clock,
                   cur, eng, emitted, spanAccess>>

\* compiler.build raised, after whatever events it had emitted.
BuildRaise ==
    /\ pc = "in_call" /\ mode = "build"
    /\ Commit(_start_raised(St))
    /\ pc' = "loop"
    /\ eng' = [eng EXCEPT !.phase = "off"]
    /\ hist' = [hist EXCEPT !.startupFailed = TRUE]
    /\ UNCHANGED <<mode, optVerbose, output, platform, handle, started, clock,
                   cur, emitted, spanAccess>>

\* compiler.watch returned: the engine goes on emitting passes by itself.
WatchReturn ==
    /\ pc = "in_call" /\ mode = "watch"
    /\ Commit(_start_returned(St))
    /\ pc' = "loop"
    /\ hist' = [hist EXCEPT !.returned = TRUE]
    /\ UNCHANGED <<mode, optVerbose, output, platform, handle, started, clock,
                   cur, eng, emitted, spanAccess>>

\* compiler.watch rejected the call: no pass is ever produced.
WatchRaise ==
    /\ pc = "in_call" /\ mode = "watch"
    /\ Commit(_start_raised(St))
    /\ pc' = "loop"
    /\ eng' = [eng EXCEPT !.phase = "off"]
    /\ hist' = [hist EXCEPT !.startupFailed = TRUE]
    /\ UNCHANGED <<mode, optVerbose, output, platform, handle, started, clock,
                   cur, emitted, spanAccess>>

\* ------------------------------------------ the engine's delivering thread
\* The engine emits while build is executing, or after watch returned and
\* until the process has terminated.
EngineLive ==
    /\ eng.phase \in {"before", "mid"}
    /\ Len(emitted) < MaxEvents
    /\ IF mode = "build" THEN pc = "in_call" ELSE pc \in {"loop", "finishing", "writing"}

NextEv == Len(emitted) + 1

Emitted(kind) == Append(emitted, [kind |-> kind, pass |-> eng.pass])

\* Room is kept for the pass's "finished".
MayBegin == Len(emitted) + 1 < MaxEvents

\* "starting": compiler.on("starting", self._on_compiler_starting) runs the
\* handler on the delivering thread: it writes _compilation_started = timer().
EmitStarting ==
    /\ EngineLive /\ MayBegin /\ eng.phase = "before"
    /\ started' = [t |-> clock, pass |-> eng.pass]
    /\ clock' = clock + 1
    /\ spanAccess' = spanAccess \cup {<<"engine", "write", pc, cur.task.pass>>}
    /\ Commit(_on_compiler_starting(St, Task("print_starting", eng.pass, NextEv, <<>>)))
    /\ eng' = [eng EXCEPT !.phase = "mid"]
    /\ emitted' = Emitted("starting")
    /\ UNCHANGED <<mode, optVerbose, output, platform, handle, pc, cur, hist>>

EmitDiagnostics ==
    /\ EngineLive /\ MayBegin
    /\ \E n \in 0..MaxDiagLen :
          Commit(on_compiler_diagnostics(St,
                      Task("diagnostics", eng.pass, NextEv, Batch(n))))
    /\ eng' = [eng EXCEPT !.phase = "mid"]
    /\ emitted' = Emitted("diagnostics")
    /\ UNCHANGED <<mode, optVerbose, output, platform, handle, pc, started,
                   clock, cur, spanAccess, hist>>

EmitOutput ==
    /\ EngineLive /\ MayBegin /\ ~eng.out
    /\ \E bundle \in Bundles :
          Commit(on_compiler_output(St, Task("output", eng.pass, NextEv, <<bundle>>)))
    /\ eng' = [eng EXCEPT !.phase = "mid", !.out = TRUE]
    /\ emitted' = Emitted("output")
    /\ UNCHANGED <<mode, optVerbose, output, platform, handle, pc, started,
                   clock, cur, spanAccess, hist>>

\* "finished" ends the pass; in watch mode the next change starts another.
EmitFinished ==
    /\ EngineLive
    /\ Commit(on_compiler_finished(St, Task("finished", eng.pass, NextEv, <<>>)))
    /\ eng' = IF mode = "watch"
              THEN [pass |-> eng.pass + 1, phase |-> "before", out |-> FALSE]
              ELSE [eng EXCEPT !.phase = "done"]
    /\ emitted' = Emitted("finished")
    /\ UNCHANGED <<mode, optVerbose, output, platform, handle, pc, started,
                   clock, cur, spanAccess, hist>>

\* --------------------------------------------- the reactor's run loop
\* Whether one more operation may raise.
MayRaise == hist.raised < MaxFaults

\* The outcomes of an operation that can raise: TRUE is success.
Oks == IF MayRaise THEN BOOLEAN ELSE {TRUE}

Raised(h, bad) == [h EXCEPT !.raised = IF bad THEN @ + 1 ELSE @]

\* The run loop takes the oldest pending task.
Ready(kind) == pc = "loop" /\ queue # <<>> /\ Head(queue).kind = kind

Taken == [St EXCEPT !.queue = Tail(@)]

\* Reactor._stop: the run loop ends; what is still pending is never run.
RunStop ==
    /\ Ready("stop")
    /\ pc' = "stopped"
    /\ queue' = Tail(queue)
    /\ UNCHANGED <<mode, optVerbose, output, platform, handle, exitRequests,
                   started, clock, cur, effects, eng, emitted, spanAccess,
                   hist>>

\* the task scheduled by _start's except branch
RunFatal ==
    /\ Ready("fatal")
    /\ Commit(_on_fatal_error(Taken, Head(queue).payload[1]))
    /\ UNCHANGED <<mode, optVerbose, output, platform, handle, pc, started,
                   clock, cur, eng, emitted, spanAccess, hist>>

RunPrintStarting ==
    /\ Ready("print_starting")
    /\ \E ok \in Oks :
          /\ Commit(IF ok THEN _print_compiler_starting(Taken, Head(queue))
                          ELSE TaskFault(Taken))
          /\ hist' = Raised([hist EXCEPT !.faulted = @ \/ ~ok], ~ok)
    /\ UNCHANGED <<mode, optVerbose, output, platform, handle, pc, started,
                   clock, cur, eng, emitted, spanAccess>>

RunDiagnostics ==
    /\ Ready("diagnostics")
    /\ \E k \in (IF MayRaise THEN 0 ELSE Len(Head(queue).payload))
                    ..Len(Head(queue).payload) :
          LET complete == k = Len(Head(queue).payload)
              printed == _on_compiler_diagnostics(Taken, Head(queue), k)
          IN  /\ Commit(IF complete THEN printed ELSE TaskFault(printed))
              /\ hist' = Raised([hist EXCEPT !.faulted = @ \/ ~complete], ~complete)
    /\ UNCHANGED <<mode, optVerbose, output, platform, handle, pc, started,
                   clock, cur, eng, emitted, spanAccess>>

\* Outcomes of the delivery: the open or the write of the file raises (caught
\* by the handler), or the write to standard output raises (not caught).
OutputOutcomes ==
    IF ~MayRaise THEN {"ok"}
    ELSE IF output = "file" THEN {"ok", "open_fail", "write_fail"} ELSE {"ok", "fault"}

RunOutput ==
    /\ Ready("output")
    /\ \E res \in OutputOutcomes \ {"write_fail"} :
          IF output = "file" /\ res = "ok"
          THEN /\ handle' = "open"
               /\ pc' = "writing"
               /\ cur' = [task |-> Head(queue), tf |-> 0]
               /\ queue' = Tail(queue)
               /\ UNCHANGED <<exitRequests, effects, hist>>
          ELSE /\ Commit(IF res = "fault" THEN TaskFault(Taken)
                                          ELSE _on_compiler_output(Taken, Head(queue), res))
               /\ hist' = Raised([hist EXCEPT
                                     !.faulted = @ \/ res = "fault",
                                     !.writeFailed = @ \/ res = "open_fail"],
                                  res # "ok")
               /\ UNCHANGED <<handle, pc, cur>>
    /\ UNCHANGED <<mode, optVerbose, output, platform, started, clock, eng,
                   emitted, spanAccess>>

\* f.write(bundle) and the end of the with block: the write succeeds or raises
\* (caught by except Exception); the file is closed either way.
RunOutputWrite ==
    /\ pc = "writing"
    /\ \E res \in OutputOutcomes \ {"open_fail"} :
          /\ Commit(_on_compiler_output(St, cur.task, res))
          /\ handle' = WithExit(handle, res)
          /\ hist' = Raised([hist EXCEPT !.writeFailed = @ \/ res = "write_fail"],
                             res # "ok")
    /\ pc' = "loop"
    /\ cur' = [task |-> NoTask, tf |-> 0]
    /\ UNCHANGED <<mode, optVerbose, output, platform, started, clock, eng,
                   emitted, spanAccess>>

\* The user's interrupt is raised inside f.write as KeyboardInterrupt: the with
\* block closes the file, except Exception does not catch it, and the guard
\* around main() ends the process without an exit request.
InterruptWrite ==
    /\ pc = "writing" /\ ~hist.interrupted
    /\ handle' = WithExit(handle, "signal")
    /\ pc' = "stopped"
    /\ hist' = [hist EXCEPT !.interrupted = TRUE]
    /\ UNCHANGED <<mode, optVerbose, output, platform, queue, exitRequests,
                   started, clock, cur, effects, eng, emitted, spanAccess>>

\* _on_compiler_finished up to time_finished = timer(); without verbose the
\* handler does nothing.
RunFinished ==
    /\ Ready("finished")
    /\ queue' = Tail(queue)
    /\ IF Verbose
       THEN /\ cur' = [task |-> Head(queue), tf |-> clock]
            /\ clock' = clock + 1
            /\ pc' = "finishing"
       ELSE UNCHANGED <<cur, clock, pc>>
    /\ UNCHANGED <<mode, optVerbose, output, platform, handle, exitRequests,
                   started, effects, eng, emitted, spanAccess, hist>>

\* _on_compiler_finished from the assertion on: read _compilation_started,
\* print the report. The assertion or the print may raise.
RunFinishedReport ==
    /\ pc = "finishing"
    /\ \E ok \in (IF started.t = 0 THEN {TRUE} ELSE Oks) :
          LET fine == ok /\ started.t # 0
          IN  /\ Commit(IF fine THEN _on_compiler_finished(St, cur.task, cur.tf)
                                ELSE TaskFault(St))
              /\ hist' = Raised([hist EXCEPT !.faulted = @ \/ ~fine], ~ok)
    /\ spanAccess' = spanAccess \cup {<<"reactor", "read", pc, cur.task.pass>>}
    /\ pc' = "loop"
    /\ cur' = [task |-> NoTask, tf |-> 0]
    /\ UNCHANGED <<mode, optVerbose, output, platform, handle, started, clock,
                   eng, emitted>>

\* The user's interrupt: the run loop is asked to stop, no exit code is set.
Interrupt ==
    /\ pc # "stopped" /\ ~hist.interrupted
    /\ queue' = Append(queue, StopTask)
    /\ hist' = [hist EXCEPT !.interrupted = TRUE]
    /\ UNCHANGED <<mode, optVerbose, output, platform, handle, pc,
                   exitRequests, started, clock, cur, effects, eng, emitted,
                   spanAccess>>

Next ==
    \/ Start
    \/ BuildReturn
    \/ BuildRaise
    \/ WatchReturn
    \/ WatchRaise
    \/ EmitStarting
    \/ EmitDiagnostics
    \/ EmitOutput
    \/ EmitFinished
    \/ RunStop
    \/ RunFatal
    \/ RunPrintStarting
    \/ RunDiagnostics
    \/ RunOutput
    \/ RunOutputWrite
    \/ InterruptWrite
    \/ RunFinished
    \/ RunFinishedReport
    \/ Interrupt

Spec == Init /\ [][Next]_vars

SpecAnyPlatform == InitAnyPlatform /\ [][Next]_vars

\* ---------------------------------------------- build mode, fair execution
\* The start in build mode.
BuildInit == Init /\ mode = "build"

BuildNext ==
    \/ Start
    \/ BuildReturn
    \/ BuildRaise
    \/ EmitStarting
    \/ EmitDiagnostics
    \/ EmitOutput
    \/ EmitFinished
    \/ RunStop
    \/ RunFatal
    \/ RunPrintStarting
    \/ RunDiagnostics
    \/ RunOutput
    \/ RunOutputWrite
    \/ RunFinished
    \/ RunFinishedReport
    \/ Interrupt
    \/ InterruptWrite

\* _start is run, and the engine's build call ends: it emits the "finished"
\* of its pass and returns, or it raises.
BuildCall == Start \/ EmitFinished \/ BuildReturn \/ BuildRaise

\* The run loop goes on executing what is pending, a task once begun is
\* carried through.
ReactorStep ==
    \/ RunStop
    \/ RunFatal
    \/ RunPrintStarting
    \/ RunDiagnostics
    \/ RunOutput
    \/ RunOutputWrite
    \/ RunFinished
    \/ RunFinishedReport

BuildSpec ==
    BuildInit /\ [][BuildNext]_vars /\ WF_vars(BuildCall) /\ WF_vars(ReactorStep)

\* ================================================================ properties
Idx(sq) == 1..Len(sq)

Printed(kind, val) == {i \in Idx(effects) : effects[i].kind = kind /\ effects[i].val = val}

Kinds(kind) == {i \in Idx(effects) : effects[i].kind = kind}

StopPending == \E j \in Idx(queue) : queue[j].kind = "stop"

\* The tasks not yet completed: the queue and the task in progress.
PendingTasks == Range(queue) \cup (IF pc \in {"finishing", "writing"} THEN {cur.task} ELSE {})

\* C1: in build mode with a file destination, when the open or the write of
\* the output file fails in the output task, the fatal-error path prints the
\* error and the exit code the process ends with is 1, never 0, although
\* _start had requested exit 0 before.
C1_WriteFailureExitsOne ==
    (mode = "build" /\ output = "file" /\ hist.writeFailed) =>
        /\ Printed("error", "write") # {}
        /\ ExitCode = 1
        /\ StopPending \/ pc = "stopped"

C1_Witness ==
    /\ mode = "build" /\ output = "file" /\ hist.writeFailed
    /\ pc = "stopped" /\ exitRequests = <<0, 1>>

\* C2: in build mode, when build returned and nothing failed (and the user
\* did not interrupt), the process stops with exit code 0 only after every
\* task scheduled for an emitted event has run: nothing is pending, every
\* emitted output has been delivered, every batch printed in full, and the
\* verbose messages printed.
C2_BuildExitsZeroAfterAllTasks ==
    (/\ mode = "build" /\ pc = "stopped" /\ hist.returned
     /\ ~hist.writeFailed /\ ~hist.faulted /\ ~hist.interrupted) =>
        /\ exitRequests = <<0>> /\ ExitCode = 0
        /\ queue = <<>>
        /\ \A e \in Idx(emitted) :
              /\ emitted[e].kind = "output" =>
                    \E i \in Kinds("bundle") : effects[i].ev = e
              /\ emitted[e].kind \in {"starting", "finished"} /\ Verbose =>
                    \E i \in Kinds("compiling") \cup Kinds("compiled") : effects[i].ev = e

C2_Witness ==
    /\ mode = "build" /\ pc = "stopped" /\ hist.returned
    /\ ~hist.writeFailed /\ ~hist.faulted /\ ~hist.interrupted
    /\ Kinds("bundle") # {} /\ Kinds("compiled") # {} /\ Kinds("diag") # {}

HasStarting(p) ==
    \E e \in Idx(emitted) : emitted[e].kind = "starting" /\ emitted[e].pass = p

\* A run in which nothing raised and the user did not interrupt.
Undisturbed ==
    ~hist.faulted /\ ~hist.writeFailed /\ ~hist.startupFailed /\ ~hist.interrupted

\* C4: the engine's delivering thread never writes the Timing Span
\* (_compilation_started) while a reactor task that reads it (the finished
\* task of a pass that had its "starting") is in progress. Stated for the
\* runs in which nothing fails.
C4_NoConcurrentSpanAccess ==
    Undisturbed =>
        \A a \in spanAccess :
            a[1] = "engine" => ~(a[3] = "finishing" /\ HasStarting(a[4]))

\* C5: every "compiled" report of a pass N that had its "starting" uses the
\* start timestamp recorded at that "starting", and its elapsed time
\* end - start is not negative. Stated for the runs in which nothing fails.
C5_ReportUsesOwnSpan ==
    \A i \in Kinds("compiled") :
        (Undisturbed /\ HasStarting(effects[i].pass)) =>
            /\ effects[i].t0pass = effects[i].pass
            /\ effects[i].t1 - effects[i].t0 >= 0

\* The rank of an effect within its pass.
Rank(e) ==
    CASE e.kind = "compiling" -> 0
      [] e.kind \in {"diag", "bundle"} -> 1
      [] e.kind = "compiled" -> 2
      [] OTHER -> 1

EventEffects == Kinds("compiling") \cup Kinds("diag") \cup Kinds("bundle")
                    \cup Kinds("compiled")

\* C6: the visible effects follow the order of emission: effects of an
\* earlier event come before those of a later one; within a pass "compiling"
\* comes before the batches and the bundle, which come before "compiled";
\* the records of a batch are printed in input order, unaltered.
C6_EffectsInEmissionOrder ==
    /\ \A i, j \in EventEffects :
          i < j =>
            /\ effects[i].ev <= effects[j].ev
            /\ effects[i].pass = effects[j].pass => Rank(effects[i]) <= Rank(effects[j])
            /\ (effects[i].ev = effects[j].ev /\ effects[i].kind = "diag") =>
                  effects[i].rec < effects[j].rec
    /\ \A i \in Kinds("diag") :
          /\ effects[i].val = Category(effects[i].rec)
          /\ \A r \in 1..(effects[i].rec - 1) :
                \E k \in Kinds("diag") :
                    k < i /\ effects[k].ev = effects[i].ev /\ effects[k].rec = r

C6_Witness ==
    \E a, b, c, d, e \in Idx(effects) :
        /\ a < b /\ b < c /\ c < d /\ d < e
        /\ effects[a].kind = "compiling"
        /\ effects[b].kind = "diag" /\ effects[b].rec = 1
        /\ effects[c].kind = "diag" /\ effects[c].rec = 2
        /\ effects[d].kind = "bundle"
        /\ effects[e].kind = "compiled"

\* C7: the Timing Span of pass N+1 is never opened while the "finished" of an
\* earlier pass (one that had its "starting") is still to be handled. Stated
\* for the runs in which nothing fails.
C7_PassesNeverOverlap ==
    \A t \in PendingTasks :
        (Undisturbed /\ t.kind = "finished" /\ HasStarting(t.pass)) =>
            t.pass >= started.pass

\* C8: after the fatal-error path has printed the error of a startup failure
\* or of an output-delivery failure, no bundle is delivered and no "compiled"
\* message is printed (for any pass that had its "starting").
C8_FatalIsTerminal ==
    \A i, j \in Idx(effects) :
        (/\ i < j
         /\ effects[i].kind = "error" /\ effects[i].val \in {"startup", "write"}
         /\ HasStarting(effects[j].pass)) =>
            effects[j].kind \notin {"bundle", "compiled"}

C10_WatchNeverExitsZero ==
    mode = "watch" =>
        /\ \A i \in Idx(exitRequests) : exitRequests[i] = 1
        /\ (~hist.interrupted /\ Kinds("error") = {}) =>
              pc # "stopped" /\ ~StopPending /\ exitRequests = <<>>
        /\ pc = "stopped" => hist.interrupted \/ (Kinds("error") # {} /\ ExitCode = 1)

C10_Witness ==
    /\ mode = "watch" /\ hist.returned /\ ~hist.interrupted
    /\ Kinds("compiled") # {} /\ Kinds("bundle") # {}
    /\ pc = "loop" /\ queue = <<>> /\ Len(emitted) = MaxEvents

\* The emitted events whose scheduled task has not been completed.
Unhandled == {t.ev : t \in PendingTasks}

\* C11: the "compiling" and "compiled" messages are printed for a pass if
\* and only if the mode is watch or the verbose flag was given: without
\* either none is ever printed, and a build whose pass has no diagnostics
\* prints nothing but the bundle; with either, every handled "starting" has
\* its "compiling" and every handled "finished" its "compiled" (in the runs
\* in which nothing fails), in watch mode also when the flag is absent.
C11_VerbosityPolicy ==
    IF mode = "watch" \/ optVerbose
    THEN Undisturbed =>
           LET unhandled == Unhandled
               compiling == {effects[i].ev : i \in Kinds("compiling")}
               compiled == {effects[i].ev : i \in Kinds("compiled")}
           IN  \A e \in Idx(emitted) \ unhandled :
                   /\ emitted[e].kind = "starting" => e \in compiling
                   /\ emitted[e].kind = "finished" => e \in compiled
    ELSE /\ \A i \in Idx(effects) :
               effects[i].kind \notin {"compiling", "compiled", "clear"}
         /\ (Undisturbed /\ \A e \in Idx(emitted) : emitted[e].kind # "diagnostics") =>
               \A i \in Idx(effects) : effects[i].kind = "bundle"

C11_Witness ==
    /\ mode = "watch" /\ ~optVerbose /\ Undisturbed
    /\ \E i \in Kinds("compiling"), j \in Kinds("compiled") :
          i < j /\ effects[i].pass = effects[j].pass

\* A step in which the run loop completes the diagnostics task at the head of
\* the queue without any of its prints raising.
DiagHandled ==
    /\ Ready("diagnostics")
    /\ queue' = <<>> \/ Head(queue') # Head(queue)
    /\ hist'.raised = hist.raised

\* C12: handling a diagnostics batch, of any length and whatever the
\* categories of its records ("error" included), only prints: each record is
\* printed, and the exit requests, the Timing Span, the lifecycle state, the
\* run loop's status and its pending tasks are left as they were; the
\* fatal-error path is not invoked and no stop is requested, so the pass
\* continues.
C12_DiagnosticsOnlyPrint ==
    [][DiagHandled =>
          LET batch == Head(queue).payload
          IN  /\ exitRequests' = exitRequests
              /\ started' = started
              /\ pc' = pc /\ eng' = eng /\ cur' = cur
              /\ queue' = Tail(queue)
              /\ hist' = hist
              /\ Len(effects') = Len(effects) + Len(batch)
              /\ \A i \in Idx(effects) : effects'[i] = effects[i]
              /\ \A i \in Idx(batch) :
                    /\ effects'[Len(effects) + i].kind = "diag"
                    /\ effects'[Len(effects) + i].val = batch[i]]_vars

C12_Witness ==
    /\ pc = "loop" /\ exitRequests = <<>> /\ ~StopPending /\ Kinds("error") = {}
    /\ \E i, j \in Kinds("diag"), b \in Kinds("bundle") :
          /\ i < j /\ j < b
          /\ effects[i].ev = effects[j].ev /\ effects[i].val = "error"
          /\ effects[b].pass = effects[i].pass

\* C15: the assertion in the finished handler never fails: whenever the
\* finished task executes with verbose reporting enabled, the start of the
\* Timing Span (_compilation_started) has been recorded, for every event
\* sequence the engine may emit, a pass without "starting" included.
C15_AssertionNeverFails ==
    pc = "finishing" => started.t # 0

\* C16: with a file destination, the file handle opened by the output task
\* is released on every exit path of that task: it is open only while the
\* task is inside its with block; once the task is over (the write
\* succeeded, the open or the write failed, or an interrupt arrived during
\* the write) the handle is closed.
C16_HandleReleased ==
    handle = "open" =>
        /\ output = "file" /\ pc = "writing"
        /\ cur.task.kind = "output"

C16_Witness ==
    /\ output = "file" /\ handle = "closed"
    /\ pc = "stopped" /\ hist.interrupted /\ cur.task.kind = "output"

\* C13: for every bundle the engine emits, the Output Sink delivers the text
\* unaltered to exactly one destination: at most one delivery per bundle, to
\* the file and not to standard output when a file destination is set, to
\* standard output otherwise; what is delivered is the emitted text, and what
\* the file receives equals what standard output receives for the same bundle.
\* Stated for the passes that began with "starting" in runs in which nothing
\* fails.
C13_SinkDeliversUnaltered ==
    \A e \in Idx(emitted) :
        (emitted[e].kind = "output" /\ HasStarting(emitted[e].pass) /\ Undisturbed) =>
            LET delivered == {i \in Kinds("bundle") : effects[i].ev = e}
            IN  /\ Cardinality(delivered) <= 1
                /\ \A i \in delivered :
                      /\ effects[i].dest = (IF output = "file" THEN "file" ELSE "stdout")
                      /\ effects[i].arg \in Bundles
                      /\ effects[i].val = effects[i].arg
                      /\ TextWrite(effects[i].arg, FileNewline)
                            = TextWrite(effects[i].arg, LineSep(platform))

\* C14: build mode always terminates: whether the engine's build call returns
\* or raises and whether the delivery of the output succeeds or fails, under
\* fair execution of the reactor the process eventually stops; its exit code
\* is then 0 or 1, and it is 0 exactly when the fatal-error path never ran.
C14_BuildTerminates ==
    /\ <>(pc = "stopped")
    /\ [](pc = "stopped" =>
            /\ ExitCode \in {0, 1}
            /\ ExitCode = 0 <=> Kinds("error") = {})

C14_Witness ==
    /\ mode = "build" /\ pc = "stopped" /\ ~hist.interrupted
    /\ hist.startupFailed /\ Kinds("bundle") # {}
    /\ Kinds("error") # {} /\ ExitCode = 1

====
